---- MODULE Spec2Model ----
(***************************************************************************)
(* A model of ConditionsStore (source/ConditionsStore.cpp): the sorted     *)
(* index `storage` (std::map<string, ConditionEntry>), the registry        *)
(* `providers` (std::map<string, DerivedProvider>) and the public          *)
(* operations on them.                                                     *)
(*                                                                         *)
(* Strings are sequences of character codes; std::string's ordering is the *)
(* lexicographic one of StrCompare.  A pointer is a set with at most one   *)
(* element: {} is nullptr, {k} points at the map node whose key is k.      *)
(* The callbacks of a provider are supplied by other subsystems; they are  *)
(* modelled by an external table `ext` (the provider's backing data) and   *)
(* by the nondeterministic answers `h` (has) and `ok` (set / erase).       *)
(***************************************************************************)
EXTENDS Integers, Sequences, FiniteSets, TLC

\* ------------------------------------------------------------------ bounds

\* Values handed to Set / Add / the Entry operators range over 0..MaxVal.
MaxVal == 1

\* Number of store operations in one run.
MaxOps == 2

Vals == 0..MaxVal

\* The condition names used as inputs: "a", "aa", "ab".  Each is a prefix of
\* another or shares one with it, and "ab" sorts after "aa" without starting
\* with it.
Keys == {<<1>>, <<1, 1>>, <<1, 2>>}

\* The panels of a UI: stack and toPush together hold at most MaxStack.
MaxStack == 3

\* Push and Pop are called while toPush, toPop hold fewer than MaxQueue
\* requests.
MaxQueue == 1

\* The panels handed to Push, Pop and PopThrough.  Nothing keeps a panel from
\* being pushed twice.
Panels == {1, 2}

VARIABLES
    storage,        \* the index: key -> ConditionEntry
    providers,      \* the registry: name -> DerivedProvider
    ext,            \* the data behind the providers' get / set callbacks
    everSet,        \* names ever written (Set, Add, Load, write through [])
    everRegistered, \* names ever handed to GetProviderNamed / Prefixed
    everIndexed,    \* names ever handed to operator[]
    last,           \* the last operation: its inputs, what its name resolved
                    \* to, its results and the callbacks it invoked; node is
                    \* the DataNode loaded, the nodes saved or the pairs read
    steps,          \* operations performed so far
    observed,       \* what is recorded besides the store: "store" (nothing),
                    \* "last" (the last operation) or "history" (the last
                    \* operation and the names ever set, registered, indexed)
    stack,          \* UI: the panels, bottom first
    toPush,         \* UI: the panels queued by Push
    toPop,          \* UI: the panels queued by Pop and PopThrough
    isDone,         \* UI: the "done" flag
    lastCall        \* UI: the last call: its inputs and its result

storeVars == <<storage, providers, ext, everSet, everRegistered, everIndexed,
               last, steps, observed>>

uiVars == <<stack, toPush, toPop, isDone, lastCall>>

vars == <<storeVars, uiVars>>

\* ----------------------------------------------------------------- strings

Min(a, b) == IF a < b THEN a ELSE b

\* The comparison of a and b from character i on: the first differing
\* character decides, then the lengths.
RECURSIVE StrCompareFrom(_, _, _)
StrCompareFrom(a, b, i) ==
    IF i > Len(a) \/ i > Len(b)
    THEN IF Len(a) < Len(b) THEN -1
         ELSE IF Len(a) > Len(b) THEN 1
         ELSE 0
    ELSE IF a[i] < b[i] THEN -1
    ELSE IF a[i] > b[i] THEN 1
    ELSE StrCompareFrom(a, b, i + 1)

\* std::string::compare: <0, 0 or >0.
StrCompare(a, b) == StrCompareFrom(a, b, 1)

\* std::less<string>, the order of both maps.
StrLess(a, b) == StrCompare(a, b) < 0

\* name.compare(0, len, str): compares name.substr(0, len) with str.
StrCompareSub(name, len, str) ==
    StrCompare(SubSeq(name, 1, Min(len, Len(name))), str)

\* Textual prefix (used to state the claims, not by the code).
StartsWith(name, prefix) ==
    /\ Len(prefix) <= Len(name)
    /\ SubSeq(name, 1, Len(prefix)) = prefix

\* ---------------------------------------------------------------- pointers

NullPtr == {}

PtrTo(k) == {k}

Target(p) == CHOOSE k \in p : TRUE

\* ------------------------------------------------------- entries, providers

\* A default-constructed ConditionEntry: value 0, no provider, empty fullKey.
NewEntry == [value |-> 0, provider |-> NullPtr, fullKey |-> <<>>]

DerivedProvider(name, isPrefixProvider) ==
    [name |-> name, isPrefixProvider |-> isPrefixProvider]

\* std::map::operator[]: the default entry is inserted when the key is absent.
MapSubscript(st, name) ==
    IF name \in DOMAIN st THEN st
    ELSE [k \in DOMAIN st \cup {name} |-> IF k = name THEN NewEntry ELSE st[k]]

\* std::map::erase(key).
MapErase(st, name) == [k \in DOMAIN st \ {name} |-> st[k]]

\* std::map::emplace: inserts only when the key is absent.
MapEmplace(pr, name, p) ==
    IF name \in DOMAIN pr THEN pr
    ELSE [k \in DOMAIN pr \cup {name} |-> IF k = name THEN p ELSE pr[k]]

EmptyMap == [k \in {} |-> NewEntry]

\* The key at position i of the index (positions are 1..n in key order).
KeyAt(st, i) ==
    CHOOSE k \in DOMAIN st : Cardinality({j \in DOMAIN st : StrLess(j, k)}) = i - 1

\* The keys of the index in iteration order.
SortedKeys(st) == [i \in 1..Cardinality(DOMAIN st) |-> KeyAt(st, i)]

\* std::map::upper_bound: the position of the first key greater than name
\* (positions are 1..n, n + 1 is end()).
UpperBound(st, name) ==
    Cardinality({k \in DOMAIN st : ~StrLess(name, k)}) + 1

\* std::map::lower_bound: the position of the first key not less than name.
LowerBound(st, name) ==
    Cardinality({k \in DOMAIN st : StrLess(k, name)}) + 1

\* ---------------------------------------------------------------- GetEntry

\* Mutant of GetEntry: the entry before name answers whenever it carries a
\* prefix provider, without comparing the provider's name with name.
GetEntry_NoPrefixCompare(st, pr, name) ==
    IF DOMAIN st = {} THEN NullPtr
    ELSE LET it == UpperBound(st, name)
         IN  IF it = 1 THEN NullPtr
             ELSE LET key == KeyAt(st, it - 1)
                      provider == st[key].provider
                  IN  IF StrCompare(name, key) = 0 THEN PtrTo(key)
                      ELSE IF /\ provider # NullPtr
                              /\ pr[Target(provider)].isPrefixProvider
                           THEN PtrTo(key)
                           ELSE NullPtr

\* ConditionsStore::GetEntry: a pointer to the entry that answers for name.
GetEntry(st, pr, name) ==
    IF DOMAIN st = {} THEN NullPtr
    ELSE LET it == UpperBound(st, name)
         IN  IF it = 1 THEN NullPtr
             ELSE LET key == KeyAt(st, it - 1)
                      provider == st[key].provider
                  IN  IF StrCompare(name, key) = 0 THEN PtrTo(key)
                      ELSE IF /\ provider # NullPtr
                              /\ pr[Target(provider)].isPrefixProvider
                              /\ StrCompareSub(name, Len(pr[Target(provider)].name),
                                               pr[Target(provider)].name) = 0
                           THEN PtrTo(key)
                           ELSE NullPtr

\* --------------------------------------------------- the provider callbacks

\* One callback invocation: the provider, the slot, the key and value passed.
Call(prov, fn, key, arg) == [prov |-> prov, fn |-> fn, key |-> key, arg |-> arg]

\* getFunction of a provider backed by a plain table.
ProviderGet(ex, key) == ex[key]

\* setFunction: the provider stores the value, or refuses (ok = FALSE).
ProviderSet(ex, key, val, ok) == IF ok THEN [ex EXCEPT ![key] = val] ELSE ex

\* eraseFunction: the provider resets the value, or refuses (ok = FALSE).
ProviderErase(ex, key, ok) == IF ok THEN [ex EXCEPT ![key] = 0] ELSE ex

\* What an operation leaves behind: the store, the providers' data, the
\* returned boolean and integer, and the callbacks invoked, in order.
Result(st, pr, ex, b, v, calls) ==
    [storage |-> st, providers |-> pr, ext |-> ex, b |-> b, v |-> v, calls |-> calls]

\* ------------------------------------------------------- the Entry operators

\* Mutant of EntryKey: the provider is always handed its own name.
EntryKey_ProviderName(st, pr, key) == pr[Target(st[key].provider)].name

\* The key an Entry hands to its provider.
EntryKey(st, pr, key) ==
    IF st[key].fullKey = <<>> THEN pr[Target(st[key].provider)].name
    ELSE st[key].fullKey

\* ConditionEntry::operator int64_t.
EntryRead(st, pr, ex, key) ==
    IF st[key].provider = NullPtr
    THEN Result(st, pr, ex, TRUE, st[key].value, <<>>)
    ELSE LET k == EntryKey(st, pr, key)
         IN  Result(st, pr, ex, TRUE, ProviderGet(ex, k),
                    <<Call(Target(st[key].provider), "get", k, 0)>>)

\* ConditionEntry::operator=.
EntryAssign(st, pr, ex, key, val, ok) ==
    IF st[key].provider = NullPtr
    THEN Result([st EXCEPT ![key].value = val], pr, ex, TRUE, 0, <<>>)
    ELSE LET k == EntryKey(st, pr, key)
         IN  Result(st, pr, ProviderSet(ex, k, val, ok), TRUE, 0,
                    <<Call(Target(st[key].provider), "set", k, val)>>)

\* The shape shared by ++, --, += and -=: value += delta, or through the
\* provider setFunction(key, getFunction(key) + delta).
EntryUpdate(st, pr, ex, key, delta, ok) ==
    IF st[key].provider = NullPtr
    THEN Result([st EXCEPT ![key].value = @ + delta], pr, ex, TRUE, 0, <<>>)
    ELSE LET k == EntryKey(st, pr, key)
             p == Target(st[key].provider)
             val == ProviderGet(ex, k) + delta
         IN  Result(st, pr, ProviderSet(ex, k, val, ok), TRUE, 0,
                    <<Call(p, "get", k, 0), Call(p, "set", k, val)>>)

\* ConditionEntry::operator++.
EntryInc(st, pr, ex, key, ok) == EntryUpdate(st, pr, ex, key, 1, ok)

\* ConditionEntry::operator--.
EntryDec(st, pr, ex, key, ok) == EntryUpdate(st, pr, ex, key, -1, ok)

\* ConditionEntry::operator+=.
EntryAdd(st, pr, ex, key, val, ok) == EntryUpdate(st, pr, ex, key, val, ok)

\* ConditionEntry::operator-=.
EntrySub(st, pr, ex, key, val, ok) == EntryUpdate(st, pr, ex, key, -val, ok)

\* ------------------------------------------------------ the store operations

\* Mutant of GetOp: the provider is handed its own registered name.
GetOp_ProviderName(st, pr, ex, name) ==
    LET ce == GetEntry(st, pr, name)
    IN  IF ce = NullPtr THEN Result(st, pr, ex, FALSE, 0, <<>>)
        ELSE IF st[Target(ce)].provider = NullPtr
        THEN Result(st, pr, ex, FALSE, st[Target(ce)].value, <<>>)
        ELSE LET p == Target(st[Target(ce)].provider)
             IN  Result(st, pr, ex, FALSE, ProviderGet(ex, pr[p].name),
                        <<Call(p, "get", pr[p].name, 0)>>)

\* Mutant of GetOp: the lookup goes through std::map::operator[], which
\* inserts the name it does not find.
GetOp_Vivify(st, pr, ex, name) ==
    LET ce == GetEntry(st, pr, name)
    IN  IF ce = NullPtr THEN Result(MapSubscript(st, name), pr, ex, FALSE, 0, <<>>)
        ELSE IF st[Target(ce)].provider = NullPtr
        THEN Result(st, pr, ex, FALSE, st[Target(ce)].value, <<>>)
        ELSE Result(st, pr, ex, FALSE, ProviderGet(ex, name),
                    <<Call(Target(st[Target(ce)].provider), "get", name, 0)>>)

\* ConditionsStore::Get.
GetOp(st, pr, ex, name) ==
    LET ce == GetEntry(st, pr, name)
    IN  IF ce = NullPtr THEN Result(st, pr, ex, FALSE, 0, <<>>)
        ELSE IF st[Target(ce)].provider = NullPtr
        THEN Result(st, pr, ex, FALSE, st[Target(ce)].value, <<>>)
        ELSE Result(st, pr, ex, FALSE, ProviderGet(ex, name),
                    <<Call(Target(st[Target(ce)].provider), "get", name, 0)>>)

\* Mutant of HasOp: a name answered by a provider is given an entry of its
\* own that references the provider.
HasOp_Materialize(st, pr, ex, name, h) ==
    LET ce == GetEntry(st, pr, name)
    IN  IF ce = NullPtr THEN Result(st, pr, ex, FALSE, 0, <<>>)
        ELSE IF st[Target(ce)].provider = NullPtr
        THEN Result(st, pr, ex, TRUE, 0, <<>>)
        ELSE Result([MapSubscript(st, name) EXCEPT
                        ![name].provider = st[Target(ce)].provider],
                    pr, ex, h, 0,
                    <<Call(Target(st[Target(ce)].provider), "has", name, 0)>>)

\* ConditionsStore::Has; h is what the provider's hasFunction answers.
HasOp(st, pr, ex, name, h) ==
    LET ce == GetEntry(st, pr, name)
    IN  IF ce = NullPtr THEN Result(st, pr, ex, FALSE, 0, <<>>)
        ELSE IF st[Target(ce)].provider = NullPtr
        THEN Result(st, pr, ex, TRUE, 0, <<>>)
        ELSE Result(st, pr, ex, h, 0,
                    <<Call(Target(st[Target(ce)].provider), "has", name, 0)>>)

\* Mutant of HasGetOp: the value is fetched whatever hasFunction answers.
HasGetOp_AlwaysGet(st, pr, ex, name, h) ==
    LET ce == GetEntry(st, pr, name)
    IN  IF ce = NullPtr THEN Result(st, pr, ex, FALSE, 0, <<>>)
        ELSE IF st[Target(ce)].provider = NullPtr
        THEN Result(st, pr, ex, TRUE, st[Target(ce)].value, <<>>)
        ELSE LET p == Target(st[Target(ce)].provider)
             IN  Result(st, pr, ex, h, ProviderGet(ex, name),
                        <<Call(p, "has", name, 0), Call(p, "get", name, 0)>>)

\* ConditionsStore::HasGet.
HasGetOp(st, pr, ex, name, h) ==
    LET ce == GetEntry(st, pr, name)
    IN  IF ce = NullPtr THEN Result(st, pr, ex, FALSE, 0, <<>>)
        ELSE IF st[Target(ce)].provider = NullPtr
        THEN Result(st, pr, ex, TRUE, st[Target(ce)].value, <<>>)
        ELSE LET p == Target(st[Target(ce)].provider)
             IN  IF h
                 THEN Result(st, pr, ex, TRUE, ProviderGet(ex, name),
                             <<Call(p, "has", name, 0), Call(p, "get", name, 0)>>)
                 ELSE Result(st, pr, ex, FALSE, 0, <<Call(p, "has", name, 0)>>)

\* Mutant of SetOp: an existing primary entry keeps its value (an insert
\* that does not overwrite).
SetOp_NoOverwrite(st, pr, ex, name, value, ok) ==
    LET ce == GetEntry(st, pr, name)
    IN  IF ce = NullPtr
        THEN Result([MapSubscript(st, name) EXCEPT ![name].value = value],
                    pr, ex, TRUE, 0, <<>>)
        ELSE IF st[Target(ce)].provider = NullPtr
        THEN Result(st, pr, ex, TRUE, 0, <<>>)
        ELSE Result(st, pr, ProviderSet(ex, name, value, ok), ok, 0,
                    <<Call(Target(st[Target(ce)].provider), "set", name, value)>>)

\* Mutant of SetOp: the answer of setFunction is dropped and true returned.
SetOp_IgnoresRefusal(st, pr, ex, name, value, ok) ==
    LET ce == GetEntry(st, pr, name)
    IN  IF ce = NullPtr
        THEN Result([MapSubscript(st, name) EXCEPT ![name].value = value],
                    pr, ex, TRUE, 0, <<>>)
        ELSE IF st[Target(ce)].provider = NullPtr
        THEN Result([st EXCEPT ![Target(ce)].value = value], pr, ex, TRUE, 0, <<>>)
        ELSE Result(st, pr, ProviderSet(ex, name, value, ok), TRUE, 0,
                    <<Call(Target(st[Target(ce)].provider), "set", name, value)>>)

\* ConditionsStore::Set; ok is what the provider's setFunction answers.
SetOp(st, pr, ex, name, value, ok) ==
    LET ce == GetEntry(st, pr, name)
    IN  IF ce = NullPtr
        THEN Result([MapSubscript(st, name) EXCEPT ![name].value = value],
                    pr, ex, TRUE, 0, <<>>)
        ELSE IF st[Target(ce)].provider = NullPtr
        THEN Result([st EXCEPT ![Target(ce)].value = value], pr, ex, TRUE, 0, <<>>)
        ELSE Result(st, pr, ProviderSet(ex, name, value, ok), ok, 0,
                    <<Call(Target(st[Target(ce)].provider), "set", name, value)>>)

\* Mutant of EraseOp: erasing a name that resolves to nothing is a failure.
EraseOp_AbsentFails(st, pr, ex, name, ok) ==
    LET ce == GetEntry(st, pr, name)
    IN  IF ce = NullPtr THEN Result(st, pr, ex, FALSE, 0, <<>>)
        ELSE IF st[Target(ce)].provider = NullPtr
        THEN Result(MapErase(st, name), pr, ex, TRUE, 0, <<>>)
        ELSE Result(st, pr, ProviderErase(ex, name, ok), ok, 0,
                    <<Call(Target(st[Target(ce)].provider), "erase", name, 0)>>)

\* ConditionsStore::Erase; ok is what the provider's eraseFunction answers.
EraseOp(st, pr, ex, name, ok) ==
    LET ce == GetEntry(st, pr, name)
    IN  IF ce = NullPtr THEN Result(st, pr, ex, TRUE, 0, <<>>)
        ELSE IF st[Target(ce)].provider = NullPtr
        THEN Result(MapErase(st, name), pr, ex, TRUE, 0, <<>>)
        ELSE Result(st, pr, ProviderErase(ex, name, ok), ok, 0,
                    <<Call(Target(st[Target(ce)].provider), "erase", name, 0)>>)

\* Mutant of AddOp: the inline value is read instead of Get(name).
AddOp_InlineValue(st, pr, ex, name, value, ok) ==
    LET cur == IF name \in DOMAIN st THEN st[name].value ELSE 0
    IN  SetOp(st, pr, ex, name, cur + value, ok)

\* ConditionsStore::Add: Set(name, Get(name) + value).
AddOp(st, pr, ex, name, value, ok) ==
    LET g == GetOp(st, pr, ex, name)
        s == SetOp(st, pr, ex, name, g.v + value, ok)
    IN  [s EXCEPT !.calls = g.calls \o s.calls]

\* Mutant of Subscript: the new entry copies the provider of the entry
\* before it, without asking GetEntry whether that entry matches.
Subscript_CopyPredecessor(st, pr, name) ==
    IF name \in DOMAIN st THEN st
    ELSE IF UpperBound(st, name) = 1 THEN MapSubscript(st, name)
    ELSE [MapSubscript(st, name) EXCEPT
             ![name].provider = st[KeyAt(st, UpperBound(st, name) - 1)].provider,
             ![name].fullKey = name]

\* ConditionsStore::operator[]: the index afterwards; the entry returned is
\* the one at key name.
Subscript(st, pr, name) ==
    IF name \in DOMAIN st THEN st
    ELSE LET ceprov == GetEntry(st, pr, name)
         IN  IF ceprov = NullPtr THEN MapSubscript(st, name)
             ELSE [MapSubscript(st, name) EXCEPT
                      ![name].provider = st[Target(ceprov)].provider,
                      ![name].fullKey = name]

\* ConditionsStore::GetProviderPrefixed.
GetProviderPrefixedOp(st, pr, ex, prefix) ==
    LET pr2 == MapEmplace(pr, prefix, DerivedProvider(prefix, TRUE))
    IN  Result([MapSubscript(st, prefix) EXCEPT ![prefix].provider = PtrTo(prefix)],
               pr2, ex, pr2[prefix].isPrefixProvider, 0, <<>>)

\* ConditionsStore::GetProviderNamed.
GetProviderNamedOp(st, pr, ex, name) ==
    LET pr2 == MapEmplace(pr, name, DerivedProvider(name, FALSE))
    IN  Result([MapSubscript(st, name) EXCEPT ![name].provider = PtrTo(name)],
               pr2, ex, pr2[name].isPrefixProvider, 0, <<>>)

\* ConditionsStore::Clear.
ClearOp(st, pr, ex) == Result(EmptyMap, EmptyMap, ex, TRUE, 0, <<>>)

\* A child of a DataNode: its first token, its number of tokens, its value.
Child(token, size, value) == [token |-> token, size |-> size, value |-> value]

\* Mutant of LoadFrom: a child without a value is loaded as 0.
RECURSIVE LoadFrom_BareKeyZero(_, _, _, _, _, _)
LoadFrom_BareKeyZero(st, pr, ex, node, oks, i) ==
    IF i > Len(node) THEN Result(st, pr, ex, TRUE, 0, <<>>)
    ELSE LET child == node[i]
             s == SetOp(st, pr, ex, child.token,
                        IF child.size >= 2 THEN child.value ELSE 0, oks[i])
             rest == LoadFrom_BareKeyZero(s.storage, s.providers, s.ext, node, oks, i + 1)
         IN  [rest EXCEPT !.calls = s.calls \o rest.calls]

\* ConditionsStore::Load: Set(child.Token(0), Size() >= 2 ? Value(1) : 1) for
\* each child in order; oks[i] is the answer of a setFunction to child i.
RECURSIVE LoadFrom(_, _, _, _, _, _)
LoadFrom(st, pr, ex, node, oks, i) ==
    IF i > Len(node) THEN Result(st, pr, ex, TRUE, 0, <<>>)
    ELSE LET child == node[i]
             s == SetOp(st, pr, ex, child.token,
                        IF child.size >= 2 THEN child.value ELSE 1, oks[i])
             rest == LoadFrom(s.storage, s.providers, s.ext, node, oks, i + 1)
         IN  [rest EXCEPT !.calls = s.calls \o rest.calls]

LoadOp(st, pr, ex, node, oks) == LoadFrom(st, pr, ex, node, oks, 1)

\* ------------------------------------------------------ PrimariesIterator

\* std::pair<string, int64_t>.
Pair(first, second) == [first |-> first, second |-> second]

\* storage.end(): the position after the last entry.
MapEnd(st) == Cardinality(DOMAIN st) + 1

\* Mutant of MoveToValueCondition: the iterator stays where it is put, on
\* whatever entry is there.
MoveToValueCondition_NoSkip(st, iter) ==
    IF iter.condMapIt # MapEnd(st)
    THEN [iter EXCEPT !.itVal = Pair(KeyAt(st, iter.condMapIt),
                                     st[KeyAt(st, iter.condMapIt)].value)]
    ELSE iter

\* PrimariesIterator::MoveToValueCondition: condMapIt moves past every entry
\* that carries a provider; itVal is refreshed unless the end is reached.
RECURSIVE MoveToValueCondition(_, _)
MoveToValueCondition(st, iter) ==
    IF /\ iter.condMapIt # MapEnd(st)
       /\ st[KeyAt(st, iter.condMapIt)].provider # NullPtr
    THEN MoveToValueCondition(st, [iter EXCEPT !.condMapIt = @ + 1])
    ELSE IF iter.condMapIt # MapEnd(st)
    THEN [iter EXCEPT !.itVal = Pair(KeyAt(st, iter.condMapIt),
                                     st[KeyAt(st, iter.condMapIt)].value)]
    ELSE iter

\* PrimariesIterator::PrimariesIterator(it, endIt).
PrimariesIterator(st, it) ==
    MoveToValueCondition(st, [condMapIt |-> it, itVal |-> Pair(<<>>, 0)])

\* PrimariesIterator::operator++.
IteratorInc(st, iter) ==
    MoveToValueCondition(st, [iter EXCEPT !.condMapIt = @ + 1])

\* PrimariesIterator::operator==: the upstream iterators are compared.
IteratorEq(iter1, iter2) == iter1.condMapIt = iter2.condMapIt

PrimariesBegin(st) == PrimariesIterator(st, 1)

PrimariesEnd(st) == PrimariesIterator(st, MapEnd(st))

PrimariesLowerBound(st, key) == PrimariesIterator(st, LowerBound(st, key))

\* for(it = from; it != PrimariesEnd(); ++it): the pairs *it, in order.
RECURSIVE Traverse(_, _)
Traverse(st, iter) ==
    IF IteratorEq(iter, PrimariesEnd(st)) THEN <<>>
    ELSE <<iter.itVal>> \o Traverse(st, IteratorInc(st, iter))

\* --------------------------------------------------------------------- Save

\* What DataWriter::Write leaves for a DataNode to read back: Write(key) a
\* child of one token, Write(key, value) a child of two.
WriteKey(key) == Child(key, 1, 0)

WriteKeyValue(key, value) == Child(key, 2, value)

\* Mutant of SaveRecord: every primary entry is written with its value.
SaveRecord_AlwaysValue(itVal) == <<WriteKeyValue(itVal.first, itVal.second)>>

\* The body of the loop of Save: what is written for the pair *it.
SaveRecord(itVal) ==
    IF itVal.second = 1 THEN <<WriteKey(itVal.first)>>
    ELSE IF itVal.second # 0 THEN <<WriteKeyValue(itVal.first, itVal.second)>>
    ELSE <<>>

\* The loop of Save from iter to PrimariesEnd().
RECURSIVE SaveFrom(_, _)
SaveFrom(st, iter) ==
    IF IteratorEq(iter, PrimariesEnd(st)) THEN <<>>
    ELSE SaveRecord(iter.itVal) \o SaveFrom(st, IteratorInc(st, iter))

\* ConditionsStore::Save: the nodes written, none when there is no primary
\* entry, else the node "conditions" with one child per record.
SaveOp(st) ==
    IF ~IteratorEq(PrimariesBegin(st), PrimariesEnd(st))
    THEN <<[token |-> "conditions", children |-> SaveFrom(st, PrimariesBegin(st))]>>
    ELSE <<>>

\* ----------------------------------------------------------------------- UI

\* The panel stack and the two queues of a UI.
UIState(s, pushes, pops) == [stack |-> s, toPush |-> pushes, toPop |-> pops]

EmptyUI == UIState(<<>>, <<>>, <<>>)

\* count(first, last, value) over a sequence.
Count(s, x) == Cardinality({i \in 1..Len(s) : s[i] = x})

\* There is room for one more panel, one more pop request.
PushRoom(u) ==
    /\ Len(u.stack) + Len(u.toPush) < MaxStack
    /\ Len(u.toPush) < MaxQueue

PopRoom(u) == Len(u.toPop) < MaxQueue

\* Push(panel): the panel is queued.
PushOp(u, panel) == [u EXCEPT !.toPush = Append(@, panel)]

\* Pop(panel): the panel is queued.
PopOp(u, panel) == [u EXCEPT !.toPop = Append(@, panel)]

\* PopThrough(panel): from the top (it = position i) downward, every panel is
\* queued for pop until the given one has been.
RECURSIVE PopThroughFrom(_, _, _)
PopThroughFrom(u, panel, i) ==
    IF i = 0 THEN u
    ELSE LET v == [u EXCEPT !.toPop = Append(@, u.stack[i])]
         IN  IF u.stack[i] = panel THEN v ELSE PopThroughFrom(v, panel, i - 1)

PopThroughOp(u, panel) == PopThroughFrom(u, panel, Len(u.stack))

\* The inner loop of PushOrPop: the first panel equal to the given one,
\* counted from the bottom of the stack, is erased.
EraseFirst(s, panel) ==
    LET found == {i \in 1..Len(s) : s[i] = panel}
    IN  IF found = {} THEN s
        ELSE LET it == CHOOSE i \in found : \A j \in found : i <= j
             IN  SubSeq(s, 1, it - 1) \o SubSeq(s, it + 1, Len(s))

\* The second loop of PushOrPop, from the k-th pop request on.
RECURSIVE PopFrom(_, _, _)
PopFrom(s, pops, k) ==
    IF k > Len(pops) THEN s
    ELSE PopFrom(EraseFirst(s, pops[k]), pops, k + 1)

\* PushOrPop(): the queued panels (the non-null ones) are appended in the
\* order of the calls, then the queued pops are applied; both queues end
\* empty.
PushOrPopOp(u) ==
    LET pushed == u.stack \o SelectSeq(u.toPush, LAMBDA panel : panel \in Panels)
    IN  UIState(PopFrom(pushed, u.toPop, 1), <<>>, <<>>)

\* Reset(): everything is cleared.
ResetOp(u) == UIState(<<>>, <<>>, <<>>)

\* What a virtual function of a panel (a handler, GamePadState, Step) may do
\* to the UI it runs under: nothing, one Push or one Pop.
Reentrant(u) ==
    {u} \cup {PushOp(u, panel) : panel \in {p \in Panels : PushRoom(u)}}
        \cup {PopOp(u, panel) : panel \in {p \in Panels : PopRoom(u)}}

\* The kinds of SDL_Event that Handle tells apart.
Events == {"MouseMotionButton1", "MouseMotion", "MouseButtonDown1",
           "MouseButtonDown2", "MouseButtonDown3", "MouseButtonUp",
           "MouseWheel", "KeyDown", "Other"}

\* The events handed to Handle: one with two handlers, one with one handler
\* and one with none.  The other kinds go the way of KeyDown or of
\* MouseButtonDown2.
EventsHandled == {"MouseButtonDown1", "KeyDown", "MouseButtonDown2"}

\* The handlers Handle calls on a panel for an event, in this order, each one
\* only if the ones before returned false.
Handlers(event) ==
    CASE event = "MouseMotionButton1" -> <<"Drag">>
      [] event = "MouseMotion" -> <<"Hover">>
      [] event = "MouseButtonDown1" -> <<"ZoneClick", "Click">>
      [] event = "MouseButtonDown3" -> <<"RClick">>
      [] event = "MouseButtonUp" -> <<"Release">>
      [] event = "MouseWheel" -> <<"Scroll">>
      [] event = "KeyDown" -> <<"KeyDown">>
      [] OTHER -> <<>>

\* The body of Handle's loop for one panel, from the k-th handler on: every
\* way the handlers can run, as the UI they leave and the value of handled.
RECURSIVE Dispatch(_, _, _)
Dispatch(u, handlers, k) ==
    IF k > Len(handlers) THEN {[ui |-> u, handled |-> FALSE]}
    ELSE UNION {{[ui |-> v, handled |-> TRUE]} \cup Dispatch(v, handlers, k + 1) :
                v \in Reentrant(u)}

\* What Handle's loop did with the panel at position i that it did not skip:
\* the pop requests queued when it came to the panel, whether a handler was
\* called (the event was given to the panel), what the handlers returned
\* and what TrapAllEvents() returned.
Visit(i, pops, given, handled, trap) ==
    [at |-> i, toPop |-> pops, given |-> given, handled |-> handled,
     trap |-> trap]

\* The end of Handle's loop: the UI it leaves, the value of handled and the
\* visits in the order they were made.
Dispatched(u, handled, visited) ==
    [ui |-> u, handled |-> handled, visited |-> visited]

\* Handle's loop with it at position i + 1 and handled false: every way it
\* can end.
RECURSIVE HandleFrom_NoSkip(_, _, _, _)
HandleFrom_NoSkip(u, event, i, visited) ==
    IF i = 0 THEN {Dispatched(u, FALSE, visited)}
    ELSE UNION {
             LET given == Handlers(event) # <<>>
                 stay == Append(visited, Visit(i, u.toPop, given, r.handled, TRUE))
                 go == Append(visited, Visit(i, u.toPop, given, r.handled, FALSE))
             IN  {Dispatched(r.ui, r.handled, stay)}
                     \cup (IF r.handled THEN {Dispatched(r.ui, TRUE, go)}
                           ELSE HandleFrom_NoSkip(r.ui, event, i - 1, go)) :
             r \in Dispatch(u, Handlers(event), 1)}

RECURSIVE HandleFrom(_, _, _, _)
HandleFrom(u, event, i, visited) ==
    IF i = 0 THEN {Dispatched(u, FALSE, visited)}
    ELSE IF Count(u.toPop, u.stack[i]) # 0
    THEN HandleFrom(u, event, i - 1, visited)
    ELSE UNION {
             LET given == Handlers(event) # <<>>
                 stay == Append(visited, Visit(i, u.toPop, given, r.handled, TRUE))
                 go == Append(visited, Visit(i, u.toPop, given, r.handled, FALSE))
             IN  {Dispatched(r.ui, r.handled, stay)}
                     \cup (IF r.handled THEN {Dispatched(r.ui, TRUE, go)}
                           ELSE HandleFrom(r.ui, event, i - 1, go)) :
             r \in Dispatch(u, Handlers(event), 1)}

\* A call that runs PushOrPop: the UI when PushOrPop began, the UI it made of
\* it, the UI at the end of the call; for Handle the value returned and the
\* visits.
Run(queued, applied, u, handled, visited) ==
    [queued |-> queued, applied |-> applied, ui |-> u, handled |-> handled,
     visited |-> visited]

\* Handle(event): the loop from the top of the stack, then PushOrPop.  Every
\* way the call can go.
HandleOp(u, event) ==
    {LET applied == PushOrPopOp(d.ui)
     IN  Run(d.ui, applied, applied, d.handled, d.visited) :
         d \in HandleFrom(u, event, Len(u.stack), <<>>)}

\* HandleGamePad's loop with it at position i: the UI it can leave.  The
\* loop ends at a panel whose GamePadState() or TrapAllEvents() is true.
RECURSIVE GamePadFrom(_, _)
GamePadFrom(u, i) ==
    IF i = 0 THEN {u}
    ELSE UNION {{v} \cup GamePadFrom(v, i - 1) : v \in Reentrant(u)}

\* HandleGamePad(): the loop from the top of the stack, then PushOrPop.
HandleGamePadOp(u) ==
    {LET applied == PushOrPopOp(v)
     IN  Run(v, applied, applied, FALSE, <<>>) :
         v \in GamePadFrom(u, Len(u.stack))}

\* StepAll's loop from the i-th panel on: the UI it can leave.
RECURSIVE StepFrom(_, _)
StepFrom(u, i) ==
    IF i > Len(u.stack) THEN {u}
    ELSE UNION {StepFrom(v, i + 1) : v \in Reentrant(u)}

\* StepAll(): PushOrPop, then every panel's Step().
StepAllOp(u) ==
    LET applied == PushOrPopOp(u)
    IN  {Run(u, applied, v, FALSE, <<>>) : v \in StepFrom(applied, 1)}

\* What is recorded of a call on the UI: the function, the panel or the
\* event handed to it, and what Handle returned.
UICall(op, panel, event, handled) ==
    [op |-> op, panel |-> panel, event |-> event, handled |-> handled]

NoPanel == {}

NoCall == UICall("none", NoPanel, "none", FALSE)

\* ------------------------------------------------------------------ actions

NoNode == <<>>

\* What a name resolves to: nothing, a primary entry or a provider's entry.
Kind(st, pr, name) ==
    LET ce == GetEntry(st, pr, name)
    IN  IF ce = NullPtr THEN "none"
        ELSE IF st[Target(ce)].provider = NullPtr THEN "primary"
        ELSE "provider"

Op(op, name, arg, node, kind, r) ==
    [op |-> op, name |-> name, arg |-> arg, node |-> node, kind |-> kind,
     b |-> r.b, v |-> r.v, calls |-> r.calls]

WriteOps == {"Set", "Add", "IndexAssign", "IndexInc", "IndexDec", "IndexAdd", "IndexSub"}

IndexOps == {"IndexRead", "IndexAssign", "IndexInc", "IndexDec", "IndexAdd", "IndexSub"}

RegisterOps == {"GetProviderNamed", "GetProviderPrefixed"}

\* The names the operation o sets, registers, hands to operator[].
SetBy(o) ==
    (IF o.op \in WriteOps THEN {o.name} ELSE {})
        \cup (IF o.op = "Load" THEN {o.node[i].token : i \in 1..Len(o.node)} ELSE {})

RegisteredBy(o) == IF o.op \in RegisterOps THEN {o.name} ELSE {}

IndexedBy(o) == IF o.op \in IndexOps THEN {o.name} ELSE {}

\* The store after construction: both maps empty.  The providers' data
\* answers get(key) = len(key) until it is set.
InitObserving(what) ==
    /\ storage = EmptyMap
    /\ providers = EmptyMap
    /\ ext = [k \in Keys |-> Len(k)]
    /\ everSet = {}
    /\ everRegistered = {}
    /\ everIndexed = {}
    /\ last = Op("Init", <<>>, 0, NoNode, "none",
                 Result(EmptyMap, EmptyMap, ext, TRUE, 0, <<>>))
    /\ steps = 0
    /\ observed = what
    /\ stack = <<>>
    /\ toPush = <<>>
    /\ toPop = <<>>
    /\ isDone = FALSE
    /\ lastCall = NoCall

Init == InitObserving("last")

InitStore == InitObserving("store")

InitHistory == InitObserving("history")

\* The effect of an operation with result r on the store, and what is
\* recorded of it.
Apply(op, name, arg, node, r) ==
    /\ steps < MaxOps
    /\ steps' = steps + 1
    /\ storage' = r.storage
    /\ providers' = r.providers
    /\ ext' = r.ext
    /\ last' = IF observed = "store" THEN last
               ELSE Op(op, name, arg, node, Kind(storage, providers, name), r)
    /\ everSet' = IF observed = "history" THEN everSet \cup SetBy(last') ELSE everSet
    /\ everRegistered' = IF observed = "history"
                         THEN everRegistered \cup RegisteredBy(last')
                         ELSE everRegistered
    /\ everIndexed' = IF observed = "history"
                      THEN everIndexed \cup IndexedBy(last')
                      ELSE everIndexed
    /\ observed' = observed
    /\ UNCHANGED uiVars

Get(name) ==
    /\ Apply("Get", name, 0, NoNode, GetOp(storage, providers, ext, name))

Has(name) ==
    /\ \E h \in BOOLEAN :
          Apply("Has", name, 0, NoNode, HasOp(storage, providers, ext, name, h))

HasGet(name) ==
    /\ \E h \in BOOLEAN :
          Apply("HasGet", name, 0, NoNode, HasGetOp(storage, providers, ext, name, h))

Set(name, value) ==
    /\ \E ok \in BOOLEAN :
          Apply("Set", name, value, NoNode, SetOp(storage, providers, ext, name, value, ok))

Add(name, value) ==
    /\ \E ok \in BOOLEAN :
          Apply("Add", name, value, NoNode, AddOp(storage, providers, ext, name, value, ok))

Erase(name) ==
    /\ \E ok \in BOOLEAN :
          Apply("Erase", name, 0, NoNode, EraseOp(storage, providers, ext, name, ok))

\* int64_t x = store[name];
IndexRead(name) ==
    /\ Apply("IndexRead", name, 0, NoNode,
             EntryRead(Subscript(storage, providers, name), providers, ext, name))

\* store[name] = value;
IndexAssign(name, value) ==
    /\ \E ok \in BOOLEAN :
          Apply("IndexAssign", name, value, NoNode,
                EntryAssign(Subscript(storage, providers, name), providers, ext,
                            name, value, ok))

\* ++store[name];
IndexInc(name) ==
    /\ \E ok \in BOOLEAN :
          Apply("IndexInc", name, 1, NoNode,
                EntryInc(Subscript(storage, providers, name), providers, ext, name, ok))

\* --store[name];
IndexDec(name) ==
    /\ \E ok \in BOOLEAN :
          Apply("IndexDec", name, 1, NoNode,
                EntryDec(Subscript(storage, providers, name), providers, ext, name, ok))

\* store[name] += value;
IndexAdd(name, value) ==
    /\ \E ok \in BOOLEAN :
          Apply("IndexAdd", name, value, NoNode,
                EntryAdd(Subscript(storage, providers, name), providers, ext,
                         name, value, ok))

\* store[name] -= value;
IndexSub(name, value) ==
    /\ \E ok \in BOOLEAN :
          Apply("IndexSub", name, value, NoNode,
                EntrySub(Subscript(storage, providers, name), providers, ext,
                         name, value, ok))

GetProviderPrefixed(prefix) ==
    /\ Apply("GetProviderPrefixed", prefix, 0, NoNode,
             GetProviderPrefixedOp(storage, providers, ext, prefix))

GetProviderNamed(name) ==
    /\ Apply("GetProviderNamed", name, 0, NoNode,
             GetProviderNamedOp(storage, providers, ext, name))

Clear ==
    /\ Apply("Clear", <<>>, 0, NoNode, ClearOp(storage, providers, ext))

\* The children of a DataNode: a bare key, or a key with a value.
Children == {Child(k, 1, 0) : k \in Keys} \cup {Child(k, 2, v) : k \in Keys, v \in Vals}

\* The DataNodes handed to Load: no child or one child.  Load is a loop of
\* Set over the children, so loading a longer node is a sequence of these.
Nodes == {<<>>} \cup {<<c>> : c \in Children}

Load(node) ==
    /\ \E oks \in [1..Len(node) -> BOOLEAN] :
          Apply("Load", <<>>, 0, node, LoadOp(storage, providers, ext, node, oks))

\* for(it = PrimariesLowerBound(key); it != PrimariesEnd(); ++it): the
\* pairs read are recorded.
TraversePrimaries(key) ==
    /\ Apply("TraversePrimaries", key, 0, Traverse(storage, PrimariesLowerBound(storage, key)),
             Result(storage, providers, ext, TRUE, 0, <<>>))

\* for(it = PrimariesBegin(); it != PrimariesEnd(); ++it).
TraverseAll ==
    /\ Apply("TraverseAll", <<>>, 0, Traverse(storage, PrimariesBegin(storage)),
             Result(storage, providers, ext, TRUE, 0, <<>>))

\* Save(out): the nodes written are recorded.
Save ==
    /\ Apply("Save", <<>>, 0, SaveOp(storage),
             Result(storage, providers, ext, TRUE, 0, <<>>))

Next ==
    \/ \E name \in Keys : Get(name)
    \/ \E name \in Keys : Has(name)
    \/ \E name \in Keys : HasGet(name)
    \/ \E name \in Keys, value \in Vals : Set(name, value)
    \/ \E name \in Keys, value \in Vals : Add(name, value)
    \/ \E name \in Keys : Erase(name)
    \/ \E name \in Keys : IndexRead(name)
    \/ \E name \in Keys, value \in Vals : IndexAssign(name, value)
    \/ \E name \in Keys : IndexInc(name)
    \/ \E name \in Keys : IndexDec(name)
    \/ \E name \in Keys, value \in Vals : IndexAdd(name, value)
    \/ \E name \in Keys, value \in Vals : IndexSub(name, value)
    \/ \E prefix \in Keys : GetProviderPrefixed(prefix)
    \/ \E name \in Keys : GetProviderNamed(name)
    \/ Clear
    \/ \E node \in Nodes : Load(node)
    \/ \E key \in Keys : TraversePrimaries(key)
    \/ TraverseAll
    \/ Save

\* The store under any sequence of operations, with the last one recorded.
Spec == Init /\ [][Next]_vars

\* The same, with the store alone.
SpecStore == InitStore /\ [][Next]_vars

\* The same, with the last operation and the history of the names.
SpecHistory == InitHistory /\ [][Next]_vars

\* --------------------------------------------------------------- UI actions

\* The UI as it is now.
UI == UIState(stack, toPush, toPop)

\* The call leaves the UI u; isDone is kept.
Leave(u, call) ==
    /\ stack' = u.stack
    /\ toPush' = u.toPush
    /\ toPop' = u.toPop
    /\ lastCall' = call
    /\ UNCHANGED storeVars

Push(panel) ==
    /\ PushRoom(UI)
    /\ Leave(PushOp(UI, panel), UICall("Push", {panel}, "none", FALSE))
    /\ UNCHANGED isDone

Pop(panel) ==
    /\ PopRoom(UI)
    /\ Leave(PopOp(UI, panel), UICall("Pop", {panel}, "none", FALSE))
    /\ UNCHANGED isDone

PopThrough(panel) ==
    /\ PopRoom(UI)
    /\ Leave(PopThroughOp(UI, panel), UICall("PopThrough", {panel}, "none", FALSE))
    /\ UNCHANGED isDone

Handle(event) ==
    /\ \E h \in HandleOp(UI, event) :
          Leave(h.ui, UICall("Handle", NoPanel, event, h.handled))
    /\ UNCHANGED isDone

HandleGamePad ==
    /\ \E h \in HandleGamePadOp(UI) :
          Leave(h.ui, UICall("HandleGamePad", NoPanel, "none", FALSE))
    /\ UNCHANGED isDone

StepAll ==
    /\ \E h \in StepAllOp(UI) :
          Leave(h.ui, UICall("StepAll", NoPanel, "none", FALSE))
    /\ UNCHANGED isDone

Reset ==
    /\ Leave(ResetOp(UI), UICall("Reset", NoPanel, "none", FALSE))
    /\ isDone' = FALSE

Quit ==
    /\ isDone' = TRUE
    /\ lastCall' = UICall("Quit", NoPanel, "none", FALSE)
    /\ UNCHANGED <<stack, toPush, toPop, storeVars>>

NextUI ==
    \/ \E panel \in Panels : Push(panel)
    \/ \E panel \in Panels : Pop(panel)
    \/ \E panel \in Panels : PopThrough(panel)
    \/ \E event \in EventsHandled : Handle(event)
    \/ HandleGamePad
    \/ StepAll
    \/ Reset
    \/ Quit

InitUI == InitObserving("ui")

\* The UI under any sequence of calls, with the last one recorded.
SpecUI == InitUI /\ [][NextUI]_vars

\* --------------------------------------------------------------- properties

\* The entry name resolves to in the current store (a pointer).
Resolved(name) == GetEntry(storage, providers, name)

\* name resolves to an entry that carries a provider.
ProviderBacked(name) ==
    /\ Resolved(name) # NullPtr
    /\ storage[Target(Resolved(name))].provider # NullPtr

\* Some registered prefix provider's name is a textual prefix of name.
CoveredByPrefix(name) ==
    \E p \in DOMAIN providers :
        providers[p].isPrefixProvider /\ StartsWith(name, providers[p].name)

StoreOps == {"Get", "Has", "HasGet", "Set", "Add", "Erase"}

\* k is a primary key: an entry of its own without provider.
Primary(k) == k \in DOMAIN storage /\ storage[k].provider = NullPtr

\* C1: in every reachable store, for every key k that resolves to no
\* provider-backed entry (absent or primary) and every value v, Set(k, v)
\* returns true without a callback and afterwards Get(k) = v and
\* Has(k) = true.
C1_SetThenGet ==
    \A k \in Keys :
        ~ProviderBacked(k) =>
            \A v \in Vals, ok \in BOOLEAN :
                LET s == SetOp(storage, providers, ext, k, v, ok)
                IN  /\ s.b = TRUE
                    /\ s.calls = <<>>
                    /\ GetOp(s.storage, s.providers, s.ext, k).v = v
                    /\ \A h \in BOOLEAN :
                          HasOp(s.storage, s.providers, s.ext, k, h).b = TRUE

\* C1 witness: a store with a provider where a key holds a primary non-zero
\* value; Set of another value to it returns true and Get returns the new
\* value.
C1_Witness ==
    \E k \in Keys, v \in Vals :
        /\ Primary(k)
        /\ DOMAIN providers # {}
        /\ storage[k].value # 0
        /\ storage[k].value # v
        /\ LET s == SetOp(storage, providers, ext, k, v, TRUE)
           IN  /\ s.b = TRUE
               /\ s.storage[k].value = v
               /\ GetOp(s.storage, s.providers, s.ext, k).v = v

\* C2 as stated: a key never set (Set, Add, Load, write through []) and never
\* registered nor covered by a registered prefix provider has Get = 0 and
\* Has = false.
C2_NeverSetOriginal ==
    \A k \in Keys, h \in BOOLEAN :
        (k \notin everSet /\ k \notin everRegistered /\ ~CoveredByPrefix(k)) =>
            /\ GetOp(storage, providers, ext, k).v = 0
            /\ HasOp(storage, providers, ext, k, h).b = FALSE

\* C2 amended: a key never set, never registered, never handed to operator[]
\* (not even to read it) and not covered by a registered prefix provider has
\* Get = 0 and Has = false, and neither query invokes a callback.
C2_NeverSeen ==
    \A k \in Keys :
        (/\ k \notin everSet
         /\ k \notin everRegistered
         /\ k \notin everIndexed
         /\ ~CoveredByPrefix(k)) =>
            /\ GetOp(storage, providers, ext, k).v = 0
            /\ GetOp(storage, providers, ext, k).calls = <<>>
            /\ \A h \in BOOLEAN :
                  /\ HasOp(storage, providers, ext, k, h).b = FALSE
                  /\ HasOp(storage, providers, ext, k, h).calls = <<>>

\* C2 witness: Get was performed on a never-seen key while a primary entry
\* with a non-zero value sorts immediately before it.
C2_Witness ==
    /\ last.op = "Get"
    /\ last.name \notin (everSet \cup everRegistered \cup everIndexed)
    /\ ~CoveredByPrefix(last.name)
    /\ UpperBound(storage, last.name) > 1
    /\ LET key == KeyAt(storage, UpperBound(storage, last.name) - 1)
       IN  storage[key].provider = NullPtr /\ storage[key].value # 0
    /\ last.v = 0

\* The callbacks Get, Has, Set and Erase of name invoke, in the current store.
LookupCalls(name, value, h, ok) ==
    GetOp(storage, providers, ext, name).calls
        \o HasOp(storage, providers, ext, name, h).calls
        \o SetOp(storage, providers, ext, name, value, ok).calls
        \o EraseOp(storage, providers, ext, name, ok).calls

\* Get, Has, Set and Erase of name are each routed to provider p, with name.
RoutedTo(name, p, value, h, ok) ==
    LookupCalls(name, value, h, ok) =
        <<Call(p, "get", name, 0), Call(p, "has", name, 0),
          Call(p, "set", name, value), Call(p, "erase", name, 0)>>

\* C3: once a prefix provider is registered for p, every key that textually
\* starts with p and has no entry of its own in the index resolves to an
\* entry of that provider, and Get, Has, Set and Erase of it are routed to
\* the provider's callbacks.
C3_PrefixCoverage ==
    \A p \in DOMAIN providers, k \in Keys :
        (/\ providers[p].isPrefixProvider
         /\ StartsWith(k, p)
         /\ k \notin DOMAIN storage) =>
            /\ Resolved(k) # NullPtr
            /\ storage[Target(Resolved(k))].provider = PtrTo(p)
            /\ \A v \in Vals, h \in BOOLEAN, ok \in BOOLEAN : RoutedTo(k, p, v, h, ok)

\* C4: with a prefix provider p and an exact-match provider e registered for
\* a key under p, the lookups of e invoke only e's callbacks, and the lookups
\* of the other keys under p that have no entry of their own invoke p's.
C4_ExactOverPrefix ==
    \A p \in DOMAIN providers, e \in DOMAIN providers :
        (/\ providers[p].isPrefixProvider
         /\ ~providers[e].isPrefixProvider
         /\ e # p
         /\ StartsWith(e, p)) =>
            \A v \in Vals, h \in BOOLEAN, ok \in BOOLEAN :
                /\ RoutedTo(e, e, v, h, ok)
                /\ \A k \in Keys :
                      (k # e /\ StartsWith(k, p) /\ k \notin DOMAIN storage) =>
                          RoutedTo(k, p, v, h, ok)

\* A callback invocation made for the queried name: the key passed is name,
\* and the provider is registered for name or for a prefix of it.
CallFor(c, name) ==
    /\ c.key = name
    /\ c.prov \in DOMAIN providers
    /\ \/ providers[c.prov].name = name
       \/ /\ providers[c.prov].isPrefixProvider
          /\ StartsWith(name, providers[c.prov].name)

AllCallsFor(calls, name) == \A i \in 1..Len(calls) : CallFor(calls[i], name)

\* C5: every callback that Get, Has, HasGet, Set or Erase of a name invokes
\* receives exactly that name, and belongs to a provider registered for the
\* name or for a textual prefix of it; the operation last performed obeys
\* the same.
C5_CallbackKey ==
    /\ \A name \in Keys :
          /\ AllCallsFor(GetOp(storage, providers, ext, name).calls, name)
          /\ \A h \in BOOLEAN :
                /\ AllCallsFor(HasOp(storage, providers, ext, name, h).calls, name)
                /\ AllCallsFor(HasGetOp(storage, providers, ext, name, h).calls, name)
          /\ \A ok \in BOOLEAN :
                /\ AllCallsFor(EraseOp(storage, providers, ext, name, ok).calls, name)
                /\ \A v \in Vals :
                      AllCallsFor(SetOp(storage, providers, ext, name, v, ok).calls, name)
    /\ last.op \in StoreOps => AllCallsFor(last.calls, last.name)

\* C5 witness: Get of a key under a registered prefix was delegated with the
\* full key, which is not the provider's name, and returned get(key) = len(key).
C5_Witness ==
    /\ last.op = "Get"
    /\ Len(last.calls) = 1
    /\ last.calls[1].key = last.name
    /\ last.calls[1].prov # last.name
    /\ last.v = Len(last.name)

\* C6: for a name that resolves to a provider-backed entry, Set and Erase
\* invoke the provider's set / erase callback exactly once, return the
\* callback's answer and leave the index and the registry unchanged.
C6_ProviderWrite ==
    \A name \in Keys :
        ProviderBacked(name) =>
            LET p == Target(storage[Target(Resolved(name))].provider)
            IN  \A ok \in BOOLEAN :
                    /\ LET e == EraseOp(storage, providers, ext, name, ok)
                       IN  /\ e.calls = <<Call(p, "erase", name, 0)>>
                           /\ e.b = ok
                           /\ e.storage = storage
                           /\ e.providers = providers
                    /\ \A v \in Vals :
                          LET s == SetOp(storage, providers, ext, name, v, ok)
                          IN  /\ s.calls = <<Call(p, "set", name, v)>>
                              /\ s.b = ok
                              /\ s.storage = storage
                              /\ s.providers = providers

\* C6 witness: a key resolved through a prefix provider, without an entry
\* of its own; a Set of a new value that the provider refuses returns false
\* after one callback, and the provider's value is as it was.
C6_Witness ==
    \E name \in Keys, v \in Vals :
        /\ ProviderBacked(name)
        /\ name \notin DOMAIN storage
        /\ ext[name] # v
        /\ LET s == SetOp(storage, providers, ext, name, v, FALSE)
           IN  /\ Len(s.calls) = 1
               /\ s.calls[1].fn = "set"
               /\ s.b = FALSE
               /\ s.ext = ext

\* Two results agree on the returned boolean and on the final state.
SameOutcome(r1, r2) ==
    /\ r1.b = r2.b
    /\ r1.storage = r2.storage
    /\ r1.providers = r2.providers
    /\ r1.ext = r2.ext

\* Erase of a key that resolves to no entry: true, no callback, no change.
EraseAbsentIsNoOp ==
    \A k \in Keys :
        Resolved(k) = NullPtr =>
            \A ok \in BOOLEAN :
            LET e == EraseOp(storage, providers, ext, k, ok)
            IN  /\ e.b = TRUE
                /\ e.calls = <<>>
                /\ e.storage = storage
                /\ e.providers = providers
                /\ e.ext = ext

\* C7 as stated: Erase of a key that resolves to no entry is a no-op that
\* returns true, and Erase applied twice to a primary key has the same
\* result and final state as applying it once.
C7_EraseTwiceOriginal ==
    /\ EraseAbsentIsNoOp
    /\ \A k \in Keys :
          Primary(k) =>
              \A ok \in BOOLEAN :
              LET e1 == EraseOp(storage, providers, ext, k, ok)
                  e2 == EraseOp(e1.storage, e1.providers, e1.ext, k, ok)
              IN  SameOutcome(e2, e1) /\ e2.calls = <<>>

\* C7 amended: Erase of a key that resolves to no entry is a no-op that
\* returns true; Erase applied twice to a primary key has the same result
\* and final state as applying it once whenever the key, once removed,
\* resolves to no entry (under a registered prefix provider the second
\* Erase is delegated to that provider).
C7_EraseAbsent ==
    /\ EraseAbsentIsNoOp
    /\ \A k \in Keys :
          Primary(k) =>
              \A ok \in BOOLEAN :
              LET e1 == EraseOp(storage, providers, ext, k, ok)
                  e2 == EraseOp(e1.storage, e1.providers, e1.ext, k, ok)
              IN  /\ e1.b = TRUE
                  /\ e1.calls = <<>>
                  /\ k \notin DOMAIN e1.storage
                  /\ GetEntry(e1.storage, e1.providers, k) = NullPtr =>
                        SameOutcome(e2, e1) /\ e2.calls = <<>>
    /\ (last.op = "Erase" /\ last.calls = <<>>) =>
          last.b = TRUE /\ ~Primary(last.name)

\* C7 witness: a primary key was erased, and it now resolves to no entry.
C7_Witness ==
    /\ last.op = "Erase"
    /\ last.kind = "primary"
    /\ last.calls = <<>>
    /\ last.b = TRUE
    /\ Resolved(last.name) = NullPtr

\* C8: Get, Has and HasGet leave the index, every inline value and the
\* registry as they were, for every name; a Get of a name that resolves to
\* nothing creates no entry, so Has of it is still false.
C8_ReadsDoNotModify ==
    \A name \in Keys :
        LET g == GetOp(storage, providers, ext, name)
        IN  /\ g.storage = storage /\ g.providers = providers
            /\ \A h \in BOOLEAN :
                  LET q == HasOp(storage, providers, ext, name, h)
                      hg == HasGetOp(storage, providers, ext, name, h)
                  IN  /\ q.storage = storage /\ q.providers = providers
                      /\ hg.storage = storage /\ hg.providers = providers
            /\ Resolved(name) = NullPtr =>
                  \A h \in BOOLEAN :
                      HasOp(g.storage, g.providers, g.ext, name, h).b = FALSE

\* C8 witness: a key covered by a prefix provider that has no entry of its
\* own while the index holds a primary entry; Get of it is answered by the
\* provider's get callback and the key still has no entry.
C8_Witness ==
    \E name \in Keys :
        /\ ProviderBacked(name)
        /\ name \notin DOMAIN storage
        /\ \E k \in Keys : Primary(k)
        /\ LET g == GetOp(storage, providers, ext, name)
           IN  /\ Len(g.calls) = 1
               /\ g.calls[1].fn = "get"
               /\ g.v = ext[name]
               /\ name \notin DOMAIN g.storage

\* C9: HasGet(name) returns (h, x) with h what Has(name) returns, and x what
\* Get(name) returns when h is true and 0 when h is false; the HasGet last
\* performed obeys the same.
C9_HasGet ==
    /\ \A name \in Keys :
          LET g == GetOp(storage, providers, ext, name)
          IN  \A h \in BOOLEAN :
                  LET hg == HasGetOp(storage, providers, ext, name, h)
                  IN  /\ hg.b = HasOp(storage, providers, ext, name, h).b
                      /\ hg.v = IF hg.b THEN g.v ELSE 0
    /\ last.op = "HasGet" =>
          last.v = IF last.b THEN GetOp(storage, providers, ext, last.name).v ELSE 0

\* C9 witness: HasGet on a provider-backed name whose has callback answered
\* false while its get callback reports a non-zero value.
C9_Witness ==
    /\ last.op = "HasGet"
    /\ last.calls # <<>>
    /\ last.b = FALSE
    /\ last.v = 0
    /\ GetOp(storage, providers, ext, last.name).v # 0

\* C10: Add(name, d) has the return value and final state of
\* Set(name, Get(name) + d); with providers that accept every set,
\* Add(name, a) then Add(name, b) leaves the Get(name) of Add(name, a + b).
C10_AddIsSetOfGet ==
    \A name \in Keys :
        LET g == GetOp(storage, providers, ext, name)
        IN  /\ \A d \in Vals, ok \in BOOLEAN :
                  LET a == AddOp(storage, providers, ext, name, d, ok)
                      s == SetOp(storage, providers, ext, name, g.v + d, ok)
                  IN  SameOutcome(a, s) /\ a.calls = g.calls \o s.calls
            /\ \A a \in Vals :
                  LET a1 == AddOp(storage, providers, ext, name, a, TRUE)
                  IN  \A b \in Vals :
                          LET a2 == AddOp(a1.storage, a1.providers, a1.ext, name, b, TRUE)
                              once == AddOp(storage, providers, ext, name, a + b, TRUE)
                              seen == GetOp(a2.storage, a2.providers, a2.ext, name).v
                          IN  /\ seen = GetOp(once.storage, once.providers,
                                              once.ext, name).v
                              /\ seen = g.v + a + b

\* C10 witness: a name that resolves through a prefix provider whose value
\* a set callback has changed; Add of 1 to it is a get then a set of the
\* provider, and the provider's value grows by 1.
C10_Witness ==
    \E name \in Keys :
        /\ ProviderBacked(name)
        /\ name \notin DOMAIN storage
        /\ ext[name] # Len(name)
        /\ LET a == AddOp(storage, providers, ext, name, 1, TRUE)
           IN  /\ Len(a.calls) = 2
               /\ a.calls[1].fn = "get"
               /\ a.calls[2].fn = "set"
               /\ a.b = TRUE
               /\ a.ext[name] = ext[name] + 1

\* The keys of the entries of st that carry no provider.
Primaries(st) == {k \in DOMAIN st : st[k].provider = NullPtr}

\* pairs holds exactly the keys of P, each once, in ascending order, each
\* with its inline value in st.
YieldsExactly(pairs, st, P) ==
    /\ Len(pairs) = Cardinality(P)
    /\ \A i \in 1..Len(pairs) :
          /\ pairs[i].first \in P
          /\ pairs[i].second = st[pairs[i].first].value
          /\ \A j \in 1..Len(pairs) : i < j => StrLess(pairs[i].first, pairs[j].first)

\* C11: in every reachable store, the traversal from PrimariesBegin() to
\* PrimariesEnd() yields exactly the entries without provider, each once, in
\* ascending key order, as (key, inline value); the traversal from
\* PrimariesLowerBound(key) yields exactly those whose key is >= key.
C11_PrimariesTraversal ==
    /\ YieldsExactly(Traverse(storage, PrimariesBegin(storage)), storage,
                     Primaries(storage))
    /\ \A key \in Keys :
          YieldsExactly(Traverse(storage, PrimariesLowerBound(storage, key)), storage,
                        {k \in Primaries(storage) : ~StrLess(k, key)})

\* C11 witness: the first entry of the index carries a provider, a later one
\* holds a non-zero inline value, and the traversal yields that pair alone.
C11_Witness ==
    /\ Cardinality(DOMAIN storage) = 2
    /\ storage[KeyAt(storage, 1)].provider # NullPtr
    /\ storage[KeyAt(storage, 2)].provider = NullPtr
    /\ storage[KeyAt(storage, 2)].value # 0
    /\ Traverse(storage, PrimariesBegin(storage))
          = <<Pair(KeyAt(storage, 2), storage[KeyAt(storage, 2)].value)>>

\* The children of the node Save writes (none when it writes nothing).
Saved(st) == IF SaveOp(st) = <<>> THEN <<>> ELSE SaveOp(st)[1].children

\* The store T obtained by loading what Save(st) wrote into an empty store.
Reload(st, ex, oks) ==
    IF SaveOp(st) = <<>> THEN Result(EmptyMap, EmptyMap, ex, TRUE, 0, <<>>)
    ELSE LoadOp(EmptyMap, EmptyMap, ex, SaveOp(st)[1].children, oks)

\* C12: for every reachable store S that holds only primary entries, the
\* store T loaded from the output of Save(S) has Get_T(k) = Get_S(k) for
\* every key k, and Has_T(k) exactly for the keys whose value in S is
\* non-zero.
C12_SaveLoadRoundTrip ==
    Primaries(storage) = DOMAIN storage =>
        \A oks \in [1..Len(Saved(storage)) -> BOOLEAN] :
            LET t == Reload(storage, ext, oks)
            IN  \A k \in Keys :
                    /\ GetOp(t.storage, t.providers, t.ext, k).v
                          = GetOp(storage, providers, ext, k).v
                    /\ \A h \in BOOLEAN :
                          HasOp(t.storage, t.providers, t.ext, k, h).b
                              = (k \in DOMAIN storage /\ storage[k].value # 0)

\* C12 witness: a store of primary entries only, one with value 0 and one
\* with a value other than 0 and 1; the reloaded store holds the second
\* with its value, and not the first.
C12_Witness ==
    /\ Primaries(storage) = DOMAIN storage
    /\ \E k0 \in DOMAIN storage, k \in DOMAIN storage :
          /\ storage[k0].value = 0
          /\ storage[k].value \notin {0, 1}
          /\ LET t == Reload(storage, ext, [i \in 1..Len(Saved(storage)) |-> TRUE])
             IN  /\ DOMAIN t.storage = {k}
                 /\ t.storage[k].value = storage[k].value

\* C13: in every reachable store, Save writes one record for every primary
\* entry whose inline value is non-zero and nothing else (no entry with a
\* provider, no entry with value 0); a value 1 is written as a bare key, any
\* other value with the key; and Load of a bare key leaves what Set(key, 1)
\* leaves.
C13_SaveRecords ==
    /\ Len(SaveOp(storage)) <= 1
    /\ SaveOp(storage) # <<>> => SaveOp(storage)[1].token = "conditions"
    /\ Len(Saved(storage))
          = Cardinality({k \in Primaries(storage) : storage[k].value # 0})
    /\ \A i \in 1..Len(Saved(storage)) :
          LET rec == Saved(storage)[i]
          IN  /\ rec.token \in Primaries(storage)
              /\ storage[rec.token].value # 0
              /\ rec.size = IF storage[rec.token].value = 1 THEN 1 ELSE 2
              /\ rec.size = 2 => rec.value = storage[rec.token].value
              /\ \A j \in 1..Len(Saved(storage)) :
                    i # j => Saved(storage)[j].token # rec.token
    /\ \A k \in Keys, ok \in BOOLEAN :
          LET l == LoadOp(storage, providers, ext, <<WriteKey(k)>>, <<ok>>)
              t == SetOp(storage, providers, ext, k, 1, ok)
          IN  /\ l.storage = t.storage
              /\ l.providers = t.providers
              /\ l.ext = t.ext
              /\ l.calls = t.calls

\* C13 witness: an entry with value 1 is the one record Save writes, as a
\* bare key, while another entry is left out: it carries a provider or its
\* value is 0.
C13_Witness ==
    \E k1 \in DOMAIN storage, k2 \in DOMAIN storage :
        /\ k1 # k2
        /\ storage[k1].provider = NullPtr
        /\ storage[k1].value = 1
        /\ storage[k2].provider # NullPtr \/ storage[k2].value = 0
        /\ Saved(storage) = <<WriteKey(k1)>>

\* C14: in every reachable state, every index entry whose provider
\* reference is set references a provider that is in the registry, whose
\* name is the entry's key or a textual prefix of it.
C14_ProviderReferences ==
    \A k \in DOMAIN storage :
        storage[k].provider # NullPtr =>
            /\ Target(storage[k].provider) \in DOMAIN providers
            /\ StartsWith(k, providers[Target(storage[k].provider)].name)

\* C14 witness: an entry that operator[] created under a prefix provider:
\* its key is longer than the name of the provider it references.
C14_Witness ==
    \E k \in DOMAIN storage :
        /\ storage[k].provider # NullPtr
        /\ storage[k].provider # PtrTo(k)
        /\ storage[k].fullKey = k
        /\ providers[Target(storage[k].provider)].name # k

\* C15: in every reachable state, GetProviderNamed(n) leaves an exact-match
\* provider registered under n and GetProviderPrefixed(n) one with the prefix
\* flag set, whatever was registered under n before, and the index then
\* holds an entry at n that references it; in every state each registered
\* name has an entry in the index that references its provider.
C15_RegisteredProvider ==
    /\ \A n \in Keys :
          LET named == GetProviderNamedOp(storage, providers, ext, n)
              prefixed == GetProviderPrefixedOp(storage, providers, ext, n)
          IN  /\ n \in DOMAIN named.providers
              /\ ~named.providers[n].isPrefixProvider
              /\ n \in DOMAIN named.storage
              /\ named.storage[n].provider = PtrTo(n)
              /\ n \in DOMAIN prefixed.providers
              /\ prefixed.providers[n].isPrefixProvider
              /\ n \in DOMAIN prefixed.storage
              /\ prefixed.storage[n].provider = PtrTo(n)
    /\ \A n \in DOMAIN providers :
          n \in DOMAIN storage /\ storage[n].provider = PtrTo(n)

\* k has no entry of its own and resolves to the entry of a prefix provider.
UnderPrefixOnly(k) == k \notin DOMAIN storage /\ ProviderBacked(k)

\* C16: in every reachable store, for a key k without an entry of its own
\* that resolves to a prefix provider, Get, Has, HasGet, Set, Add and Erase
\* leave the index without k, and operator[] inserts at k an entry that
\* references the same provider with resolved key k, and nothing else; for a
\* key that resolves to nothing operator[] inserts an inline entry with
\* value 0, after which Has(k) is true and Get(k) is 0; for a key in the
\* index operator[] leaves the index as it is.
C16_OnlySubscriptInserts ==
    \A k \in Keys :
        LET s == Subscript(storage, providers, k)
        IN  /\ UnderPrefixOnly(k) =>
                  LET p == storage[Target(Resolved(k))].provider
                  IN  /\ providers[Target(p)].isPrefixProvider
                      /\ k \notin DOMAIN GetOp(storage, providers, ext, k).storage
                      /\ \A h \in BOOLEAN :
                            /\ k \notin DOMAIN HasOp(storage, providers, ext, k, h).storage
                            /\ k \notin DOMAIN HasGetOp(storage, providers, ext, k, h).storage
                      /\ \A ok \in BOOLEAN :
                            /\ k \notin DOMAIN EraseOp(storage, providers, ext, k, ok).storage
                            /\ \A v \in Vals :
                                  /\ k \notin DOMAIN SetOp(storage, providers, ext, k, v, ok).storage
                                  /\ k \notin DOMAIN AddOp(storage, providers, ext, k, v, ok).storage
                      /\ DOMAIN s = DOMAIN storage \cup {k}
                      /\ s[k] = [value |-> 0, provider |-> p, fullKey |-> k]
                      /\ \A j \in DOMAIN storage : s[j] = storage[j]
            /\ Resolved(k) = NullPtr =>
                  /\ DOMAIN s = DOMAIN storage \cup {k}
                  /\ s[k].provider = NullPtr
                  /\ s[k].value = 0
                  /\ \A j \in DOMAIN storage : s[j] = storage[j]
                  /\ GetOp(s, providers, ext, k).v = 0
                  /\ \A h \in BOOLEAN : HasOp(s, providers, ext, k, h).b = TRUE
            /\ k \in DOMAIN storage => s = storage

\* C16 witness: a key under a prefix provider whose value has been set
\* through the provider and which still has no entry of its own; operator[]
\* gives it one.
C16_Witness ==
    \E k \in Keys :
        /\ UnderPrefixOnly(k)
        /\ ext[k] # Len(k)
        /\ k \in DOMAIN Subscript(storage, providers, k)
        /\ Subscript(storage, providers, k)[k].provider
              = storage[Target(Resolved(k))].provider

\* Get(name) in the state the result r leaves.
GetAfter(r, name) == GetOp(r.storage, r.providers, r.ext, name).v

\* The callbacks of a compound write through a provider-backed entry: get,
\* then set of the value got plus delta, both with name.
GetThenSet(calls, p, name, delta) ==
    calls = <<Call(p, "get", name, 0), Call(p, "set", name, ext[name] + delta)>>

\* C17: in every reachable store and for every name, with s the index after
\* operator[](name): reading the entry returns what Get(name) returns;
\* store[name] = v leaves the Get(name) that Set(name, v) leaves; +=, -=, ++
\* and -- leave the Get(name) that Add of d, -d, 1 and -1 leaves; when the
\* entry carries a provider, = is one set and each compound write a get
\* followed by a set of that provider, all with the key name.
C17_EntryLikeStore ==
    \A name \in Keys :
        LET s == Subscript(storage, providers, name)
        IN  /\ EntryRead(s, providers, ext, name).v
                  = GetOp(storage, providers, ext, name).v
            /\ \A ok \in BOOLEAN :
                  /\ GetAfter(EntryInc(s, providers, ext, name, ok), name)
                        = GetAfter(AddOp(storage, providers, ext, name, 1, ok), name)
                  /\ GetAfter(EntryDec(s, providers, ext, name, ok), name)
                        = GetAfter(AddOp(storage, providers, ext, name, -1, ok), name)
                  /\ \A v \in Vals :
                        /\ GetAfter(EntryAssign(s, providers, ext, name, v, ok), name)
                              = GetAfter(SetOp(storage, providers, ext, name, v, ok), name)
                        /\ GetAfter(EntryAdd(s, providers, ext, name, v, ok), name)
                              = GetAfter(AddOp(storage, providers, ext, name, v, ok), name)
                        /\ GetAfter(EntrySub(s, providers, ext, name, v, ok), name)
                              = GetAfter(AddOp(storage, providers, ext, name, -v, ok), name)
                  /\ s[name].provider # NullPtr =>
                        LET p == Target(s[name].provider)
                        IN  /\ EntryRead(s, providers, ext, name).calls
                                  = <<Call(p, "get", name, 0)>>
                            /\ GetThenSet(EntryInc(s, providers, ext, name, ok).calls,
                                          p, name, 1)
                            /\ GetThenSet(EntryDec(s, providers, ext, name, ok).calls,
                                          p, name, -1)
                            /\ \A v \in Vals :
                                  /\ EntryAssign(s, providers, ext, name, v, ok).calls
                                        = <<Call(p, "set", name, v)>>
                                  /\ GetThenSet(EntryAdd(s, providers, ext, name, v, ok).calls,
                                                p, name, v)
                                  /\ GetThenSet(EntrySub(s, providers, ext, name, v, ok).calls,
                                                p, name, -v)

\* C17 witness: a key under a prefix provider, without an entry of its own,
\* whose provider value is not the initial one; += 1 through operator[] is a
\* get and a set with the key itself and raises Get of the key by 1.
C17_Witness ==
    \E name \in Keys :
        /\ UnderPrefixOnly(name)
        /\ ext[name] # Len(name)
        /\ LET w == EntryAdd(Subscript(storage, providers, name), providers, ext,
                             name, 1, TRUE)
           IN  /\ Len(w.calls) = 2
               /\ w.calls[1].key = name
               /\ w.calls[2].key = name
               /\ w.calls[1].prov # name
               /\ GetAfter(w, name) = GetOp(storage, providers, ext, name).v + 1

\* The provider the lookups of name are routed to in (st, pr), if any.
Route(st, pr, name) ==
    IF GetEntry(st, pr, name) = NullPtr THEN NullPtr
    ELSE st[Target(GetEntry(st, pr, name))].provider

\* Get(j), Has(j) and the provider j is routed to are in the state that r
\* leaves what they are in the current state, for every key j other than k.
OthersUnchanged(r, k) ==
    \A j \in Keys \ {k} :
        /\ GetOp(r.storage, r.providers, r.ext, j).v = GetOp(storage, providers, ext, j).v
        /\ \A h \in BOOLEAN :
              HasOp(r.storage, r.providers, r.ext, j, h).b
                  = HasOp(storage, providers, ext, j, h).b
        /\ Route(r.storage, r.providers, j) = Route(storage, providers, j)

\* Set(k, v) on a key that resolves to a primary entry or to nothing changes
\* the answers of no other key.
SetIsLocal ==
    \A k \in Keys :
        ~ProviderBacked(k) =>
            \A v \in Vals, ok \in BOOLEAN :
                OthersUnchanged(SetOp(storage, providers, ext, k, v, ok), k)

\* Erase(k) on a key that resolves to a primary entry or to nothing changes
\* the answers of no other key.
EraseIsLocal ==
    \A k \in Keys :
        ~ProviderBacked(k) =>
            \A ok \in BOOLEAN :
                OthersUnchanged(EraseOp(storage, providers, ext, k, ok), k)

\* C18: in every reachable store, Set(k, v) and Erase(k) on a key k that is
\* primary or absent leave, for every other key j, Get(j), Has(j) and the
\* provider j is routed to as they were.
C18_SetEraseLocal == SetIsLocal /\ EraseIsLocal

\* Every way a call that runs PushOrPop can go from the UI as it is now.
Runs ==
    StepAllOp(UI) \cup HandleGamePadOp(UI)
        \cup UNION {HandleOp(UI, event) : event \in EventsHandled}

\* The panels of a sequence.
Range(s) == {s[i] : i \in 1..Len(s)}

\* A step that is a call of Push or Pop appends the panel to its queue and
\* changes nothing else of the UI.
EnqueueOnly ==
    /\ lastCall'.op = "Push" =>
          /\ \E panel \in lastCall'.panel : toPush' = Append(toPush, panel)
          /\ UNCHANGED <<stack, toPop>>
    /\ lastCall'.op = "Pop" =>
          /\ \E panel \in lastCall'.panel : toPop' = Append(toPop, panel)
          /\ UNCHANGED <<stack, toPush>>

\* When Handle's loop is left the stack is as it was when Handle was called,
\* whatever the handlers pushed and popped.
StackKeptInDispatch ==
    \A event \in EventsHandled :
        \A h \in HandleOp(UI, event) : h.queued.stack = stack

\* A step that changes the stack is a call that runs PushOrPop.
OnlyPushOrPopChangesStack ==
    stack' # stack => lastCall'.op \in {"StepAll", "Handle", "HandleGamePad"}

\* PushOrPop leaves the stack followed by the queued panels, less every panel
\* queued for pop, and both queues empty.
QueuesApplied ==
    \A r \in Runs :
        /\ r.applied.toPush = <<>>
        /\ r.applied.toPop = <<>>
        /\ r.applied.stack
               = SelectSeq(r.queued.stack \o r.queued.toPush,
                           LAMBDA panel : panel \notin Range(r.queued.toPop))

\* C19: Push and Pop only append to their queue, so the stack is unchanged
\* throughout a dispatch of Handle; only a call that runs PushOrPop (StepAll,
\* Handle, HandleGamePad) changes the stack; PushOrPop appends the queued
\* pushes in call order, then removes the queued pops, and leaves both queues
\* empty and no panel that was queued for pop on the stack.
C19_DeferredPushPop ==
    /\ [](StackKeptInDispatch /\ QueuesApplied)
    /\ [][EnqueueOnly /\ OnlyPushOrPopChangesStack]_vars

\* What PushOrPop does to the count of every panel: each pop request takes
\* one occurrence away, while there is one.
QueuesAppliedOnce ==
    \A r \in Runs, panel \in Panels :
        LET all == r.queued.stack \o r.queued.toPush
            left == Count(all, panel) - Count(r.queued.toPop, panel)
        IN  Count(r.applied.stack, panel) = IF left > 0 THEN left ELSE 0

\* The positions of the stack visited by a dispatch, in the order of the
\* visits.
Positions(visited) == [k \in 1..Len(visited) |-> visited[k].at]

\* The position a dispatch stopped at: that of the last panel visited if it
\* handled the event or trapped it, 0 if the loop ran to the bottom.
StoppedAt(visited) ==
    IF visited # <<>> /\ (visited[Len(visited)].handled \/ visited[Len(visited)].trap)
    THEN visited[Len(visited)].at
    ELSE 0

\* C20: in every reachable UI and for every way Handle(event) can go, the
\* panels are visited from the top downward; no panel is visited while it is
\* queued in toPop, whether it was queued before the call or by a panel
\* visited earlier, and every other panel above the stopping position is
\* visited; only the last panel visited can have handled the event or trapped
\* it; Handle returns true exactly when a visited panel handled the event;
\* the panels pushed during the dispatch are in toPush, not on the stack, when
\* the loop is left, so none of them is visited.
C20_HandleDelivery ==
    \A event \in EventsHandled :
        \A h \in HandleOp(UI, event) :
            LET v == h.visited
            IN  /\ \A k \in 1..Len(v) :
                      /\ v[k].at \in 1..Len(stack)
                      /\ k > 1 => v[k].at < v[k - 1].at
                      /\ stack[v[k].at] \notin Range(v[k].toPop)
                      /\ v[k].given = (Handlers(event) # <<>>)
                      /\ v[k].handled => v[k].given
                      /\ k < Len(v) => ~v[k].handled /\ ~v[k].trap
                /\ \A i \in 1..Len(stack) :
                      i > StoppedAt(v) /\ i \notin Range(Positions(v))
                          => stack[i] \in Range(h.queued.toPop)
                /\ \A i \in 1..Len(stack) :
                      stack[i] \in Range(toPop) => i \notin Range(Positions(v))
                /\ h.handled = (\E k \in 1..Len(v) : v[k].handled)
                /\ h.queued.stack = stack
                /\ Len(h.queued.toPush) >= Len(toPush)

\* Three panels are on the stack and none is queued for pop; the top panel
\* does not handle the event and queues the middle one for pop, the middle
\* one is passed over and the bottom one handles the event.
C20_Witness ==
    /\ Len(stack) = 3
    /\ toPop = <<>>
    /\ \E event \in EventsHandled :
          \E h \in HandleOp(UI, event) :
              /\ Positions(h.visited) = <<3, 1>>
              /\ h.visited[1].given
              /\ stack[2] \in Range(h.queued.toPop)
              /\ h.handled

\* The position PopThrough(panel) stops at: that of the topmost panel equal
\* to the given one.
TopOf(panel) ==
    CHOOSE i \in 1..Len(stack) :
        /\ stack[i] = panel
        /\ \A j \in 1..Len(stack) : stack[j] = panel => j <= i

\* The stack after PopThrough(panel) and the PushOrPop that follows it.
AfterPopThrough(panel) == PushOrPopOp(PopThroughOp(UI, panel)).stack

\* C21: in every reachable UI with nothing queued and for every panel p on
\* the stack, PopThrough(p) followed by PushOrPop leaves exactly the panels
\* that were below p (below its topmost occurrence), in their order.
C21_PopThroughLeavesBelow ==
    toPush = <<>> /\ toPop = <<>> =>
        \A panel \in Range(stack) :
            AfterPopThrough(panel) = SubSeq(stack, 1, TopOf(panel) - 1)

\* The same for the stacks on which no panel occurs twice.
PopThroughWithoutDuplicates ==
    /\ toPush = <<>>
    /\ toPop = <<>>
    /\ \A panel \in Panels : Count(stack, panel) <= 1
    => \A panel \in Range(stack) :
           AfterPopThrough(panel) = SubSeq(stack, 1, TopOf(panel) - 1)

====
